---- MODULE Spec2Model ----
\* balrog.policy.Policy: construction, permission-universe validation,
\* identity and role resolution, check and filter.
EXTENDS Integers, Sequences, FiniteSets, TLC

\* ---------------------------------------------------------------- bounds
MaxRoles == 2   \* longest `roles` argument given to Policy(...)
MaxPerms == 2   \* longest `permissions` argument given to Policy(...)

\* ---------------------------------------------------------------- inputs
PermissionNames == {"view", "edit", "delete"}   \* names callers ask about
UniverseNames == {"view", "edit"}               \* names a universe may declare
Identities == {"u1", "u2"}
RoleNameOutputs == {"viewer", "admin", "ghost"} \* what the role callback may return
ObjectLists == {<<>>, <<1, 2, 3>>}

\* A per-permission capability supplied by the application: "allow" checks
\* True and keeps every object, "deny" checks False and keeps none.
CapabilityCheck(capability, identity) == capability = "allow"

CapabilityFilter(capability, identity, objects) ==
    IF capability = "allow" THEN objects ELSE <<>>

\* Role objects a caller may pass; two of them share the name "viewer".
RoleInputs ==
    { [name |-> "viewer", permissions |-> [view |-> "allow"]],
      [name |-> "viewer", permissions |-> [edit |-> "deny"]],
      [name |-> "admin",  permissions |-> [view |-> "allow", edit |-> "allow"]] }

\* Elements of the `permissions` argument: a bare name (basestring) or a
\* Permission object.
PermissionInputs ==
    [kind : {"basestring", "Permission"}, name : UniverseNames]

SeqsUpTo(S, n) == UNION { [1..k -> S] : k \in 0..n }

None == [isNone |-> TRUE, items |-> <<>>]

PermissionsArgs ==
    {None} \cup { [isNone |-> FALSE, items |-> s] : s \in SeqsUpTo(PermissionInputs, MaxPerms) }

NoValue == "NoValue"

VARIABLES
    args,           \* the arguments of Policy(roles, get_identity, get_role, permissions)
    policy,         \* "new" before __init__, "constructed" once it returned, "failed" if it raised
    roles,          \* self.roles: role name -> Role
    permissions,    \* self.permissions: None, or permission name -> Permission
    _get_identity,  \* what the get_identity callback returns now
    _get_role,      \* what the get_role callback returns now, per identity
    last            \* the most recent call on the policy: operation, arguments, steps, outcome

vars == <<args, policy, roles, permissions, _get_identity, _get_role, last>>

EmptyDict == <<>>

\* No call made yet. `parity` is the parity of the number of calls made so far.
NoCall ==
    [op |-> "none", args |-> <<>>, trace |-> <<>>, status |-> "none",
     value |-> NoValue, parity |-> 0]

\* ---------------------------------------------------------------- __init__
\* Permission(name): a Permission object holding the name.
Permission(name) == [kind |-> "Permission", name |-> name]

Put(dict, key, value) ==
    [k \in DOMAIN dict \cup {key} |-> IF k = key THEN value ELSE dict[k]]

\* lines 26-31: the permissions dict built from the first n items.
RECURSIVE PermissionsDict(_, _)
PermissionsDict(items, n) ==
    IF n = 0 THEN EmptyDict
    ELSE LET permission == IF items[n].kind = "basestring"
                           THEN Permission(items[n].name)
                           ELSE items[n]
         IN Put(PermissionsDict(items, n - 1), permission.name, permission)

\* As RegisterRoles without the assert: a later role replaces an earlier one
\* of the same name.
RECURSIVE RegisterRoles_overwrite(_, _, _)
RegisterRoles_overwrite(rs, i, dict) ==
    IF i > Len(rs) THEN [raised |-> FALSE, roles |-> dict]
    ELSE RegisterRoles_overwrite(rs, i + 1, Put(dict, rs[i].name, rs[i]))

\* lines 33-37: the loop over roles; stops at the first failing assert.
RECURSIVE RegisterRoles(_, _, _)
RegisterRoles(rs, i, dict) ==
    IF i > Len(rs) THEN [raised |-> FALSE, roles |-> dict]
    ELSE IF rs[i].name \in DOMAIN dict
         THEN [raised |-> TRUE, roles |-> dict]
         ELSE RegisterRoles(rs, i + 1, Put(dict, rs[i].name, rs[i]))

Init ==
    /\ args \in [roles : SeqsUpTo(RoleInputs, MaxRoles), permissions : PermissionsArgs]
    /\ policy = "new"
    /\ roles = EmptyDict
    /\ permissions = [isNone |-> TRUE, dict |-> EmptyDict]
    /\ _get_identity \in Identities
    /\ _get_role \in [Identities -> RoleNameOutputs]
    /\ last = NoCall

Construct ==
    /\ policy = "new"
    /\ LET reg == RegisterRoles(args.roles, 1, EmptyDict)
       IN /\ permissions' =
                IF args.permissions.isNone
                THEN [isNone |-> TRUE, dict |-> EmptyDict]
                ELSE [isNone |-> FALSE,
                      dict |-> PermissionsDict(args.permissions.items,
                                               Len(args.permissions.items))]
          /\ roles' = reg.roles
          /\ policy' = IF reg.raised THEN "failed" ELSE "constructed"
    /\ UNCHANGED <<args, _get_identity, _get_role, last>>

\* ---------------------------------------------------------------- results
\* What one method call produced: how it ended ("returned" or the name of the
\* exception it raised), the value returned, and the steps it took in order.
Step(fn, arg, ret) == [fn |-> fn, arg |-> arg, ret |-> ret]

Returned(value, trace) == [status |-> "returned", value |-> value, trace |-> trace]

Raised(exception, trace) == [status |-> exception, value |-> NoValue, trace |-> trace]

\* ---------------------------------------------------------------- Role
\* Role.check(identity, permission): False when the permission is not
\* registered on the role, else the capability's check.
RoleCheck(role, identity, permission) ==
    LET ret == IF permission \in DOMAIN role.permissions
               THEN CapabilityCheck(role.permissions[permission], identity)
               ELSE FALSE
    IN Returned(ret, <<Step("Role.check", <<role, identity, permission>>, ret)>>)

\* Role.filter(identity, permission, objects): signals that the role lacks
\* the permission when it is not registered, else the capability's filter.
RoleFilter(role, identity, permission, objects) ==
    IF permission \in DOMAIN role.permissions
    THEN LET ret == CapabilityFilter(role.permissions[permission], identity, objects)
         IN Returned(ret, <<Step("Role.filter", <<role, identity, permission, objects>>, ret)>>)
    ELSE Raised("RoleLacksPermission",
                <<Step("Role.filter", <<role, identity, permission, objects>>,
                       "RoleLacksPermission")>>)

\* ---------------------------------------------------------------- Policy
\* Python truth value of self.permissions: None and the empty dict are false.
Truthy(p) == ~p.isNone /\ DOMAIN p.dict # {}

_check_permission(permission) ==
    IF Truthy(permissions) /\ permission \notin DOMAIN permissions.dict
    THEN Raised("PermissionNotFound",
                <<Step("_check_permission", <<permission>>, "PermissionNotFound")>>)
    ELSE Returned(NoValue, <<Step("_check_permission", <<permission>>, "ok")>>)

get_identity ==
    Returned(_get_identity, <<Step("_get_identity", <<>>, _get_identity)>>)

\* As get_role with a default: an unregistered name yields some registered role.
get_role_fallback(identity) ==
    LET name == _get_role[identity]
        trace == <<Step("_get_role", <<identity>>, name)>>
    IN IF name \in DOMAIN roles
       THEN Returned(roles[name], trace)
       ELSE IF DOMAIN roles # {}
            THEN Returned(roles[CHOOSE n \in DOMAIN roles : TRUE], trace)
            ELSE Raised("RoleNotFound", trace)

\* As get_role remembering the name the role callback gave for this identity
\* during the previous call instead of asking again.
get_role_cached(identity) ==
    LET seen == { i \in DOMAIN last.trace :
                    last.trace[i].fn = "_get_role" /\ last.trace[i].arg = <<identity>> }
        name == IF seen # {} THEN last.trace[CHOOSE i \in seen : TRUE].ret
                ELSE _get_role[identity]
        trace == <<Step("_get_role", <<identity>>, name)>>
    IN IF name \in DOMAIN roles
       THEN Returned(roles[name], trace)
       ELSE Raised("RoleNotFound", trace)

get_role(identity) ==
    LET name == _get_role[identity]
        trace == <<Step("_get_role", <<identity>>, name)>>
    IN IF name \in DOMAIN roles
       THEN Returned(roles[name], trace)
       ELSE Raised("RoleNotFound", trace)

\* As check without the try/except around get_role.
check_propagates(permission) ==
    LET v == _check_permission(permission)
    IN IF v.status # "returned" THEN v
       ELSE LET id == get_identity
                r == get_role(id.value)
                t == v.trace \o id.trace \o r.trace
            IN IF r.status = "RoleNotFound"
               THEN Raised("RoleNotFound", t)
               ELSE LET rc == RoleCheck(r.value, id.value, permission)
                    IN Returned(rc.value, t \o rc.trace)

\* As check returning whether a role was found instead of the role's answer.
check_role_found(permission) ==
    LET v == _check_permission(permission)
    IN IF v.status # "returned" THEN v
       ELSE LET id == get_identity
                r == get_role(id.value)
                t == v.trace \o id.trace \o r.trace
            IN IF r.status = "RoleNotFound"
               THEN Returned(FALSE, t)
               ELSE LET rc == RoleCheck(r.value, id.value, permission)
                    IN Returned(TRUE, t \o rc.trace)

check(permission) ==
    LET v == _check_permission(permission)
    IN IF v.status # "returned" THEN v
       ELSE LET id == get_identity
                r == get_role(id.value)
                t == v.trace \o id.trace \o r.trace
            IN IF r.status = "RoleNotFound"
               THEN Returned(FALSE, t)
               ELSE LET rc == RoleCheck(r.value, id.value, permission)
                    IN Returned(rc.value, t \o rc.trace)

\* As filter treating a missing role the way check does: nothing is visible.
filter_swallows(permission, objects) ==
    LET v == _check_permission(permission)
    IN IF v.status # "returned" THEN v
       ELSE LET id == get_identity
                r == get_role(id.value)
                t == v.trace \o id.trace \o r.trace
            IN IF r.status # "returned"
               THEN Returned(<<>>, t)
               ELSE LET rf == RoleFilter(r.value, id.value, permission, objects)
                    IN [rf EXCEPT !.trace = t \o rf.trace]

\* As filter resolving the identity before validating the permission.
filter_identity_first(permission, objects) ==
    LET id == get_identity
        v == _check_permission(permission)
    IN IF v.status # "returned" THEN [v EXCEPT !.trace = id.trace \o v.trace]
       ELSE LET r == get_role(id.value)
                t == id.trace \o v.trace \o r.trace
            IN IF r.status # "returned"
               THEN Raised(r.status, t)
               ELSE LET rf == RoleFilter(r.value, id.value, permission, objects)
                    IN [rf EXCEPT !.trace = t \o rf.trace]

filter(permission, objects) ==
    LET v == _check_permission(permission)
    IN IF v.status # "returned" THEN v
       ELSE LET id == get_identity
                r == get_role(id.value)
                t == v.trace \o id.trace \o r.trace
            IN IF r.status # "returned"
               THEN Raised(r.status, t)
               ELSE LET rf == RoleFilter(r.value, id.value, permission, objects)
                    IN [rf EXCEPT !.trace = t \o rf.trace]

\* ---------------------------------------------------------------- calls
\* A caller holding the constructed policy calls one of its methods.
Call(op, a, result) ==
    [op |-> op, args |-> a, trace |-> result.trace, status |-> result.status,
     value |-> result.value, parity |-> 1 - last.parity]

GetIdentity ==
    /\ policy = "constructed"
    /\ last' = Call("get_identity", <<>>, get_identity)
    /\ UNCHANGED <<args, policy, roles, permissions, _get_identity, _get_role>>

\* As GetRole taking the role out of the registry (roles.pop(name)).
GetRole_pops ==
    /\ policy = "constructed"
    /\ \E identity \in Identities :
          LET result == get_role(identity)
          IN /\ last' = Call("get_role", <<identity>>, result)
             /\ roles' = IF result.status = "returned"
                         THEN [n \in DOMAIN roles \ {result.value.name} |-> roles[n]]
                         ELSE roles
    /\ UNCHANGED <<args, policy, permissions, _get_identity, _get_role>>

GetRole ==
    /\ policy = "constructed"
    /\ \E identity \in Identities :
          last' = Call("get_role", <<identity>>, get_role(identity))
    /\ UNCHANGED <<args, policy, roles, permissions, _get_identity, _get_role>>

Check ==
    /\ policy = "constructed"
    /\ \E permission \in PermissionNames :
          last' = Call("check", <<permission>>, check(permission))
    /\ UNCHANGED <<args, policy, roles, permissions, _get_identity, _get_role>>

Filter ==
    /\ policy = "constructed"
    /\ \E permission \in PermissionNames, objects \in ObjectLists :
          last' = Call("filter", <<permission, objects>>, filter(permission, objects))
    /\ UNCHANGED <<args, policy, roles, permissions, _get_identity, _get_role>>

\* ---------------------------------------------------------------- collaborators
\* The application's callbacks are outside the policy; what they return may
\* change between calls (another user logs in, a user's role is changed).
IdentityChanges ==
    /\ \E identity \in Identities \ {_get_identity} : _get_identity' = identity
    /\ UNCHANGED <<args, policy, roles, permissions, _get_role, last>>

RoleChanges ==
    /\ \E identity \in Identities :
          \E name \in RoleNameOutputs \ {_get_role[identity]} :
             _get_role' = [_get_role EXCEPT ![identity] = name]
    /\ UNCHANGED <<args, policy, roles, permissions, _get_identity, last>>

Next ==
    \/ Construct
    \/ GetIdentity
    \/ GetRole
    \/ Check
    \/ Filter
    \/ IdentityChanges
    \/ RoleChanges

Spec == Init /\ [][Next]_vars

\* ================================================================ properties
IsPolicyCall == last.op \in {"check", "filter"}

\* The call got past self._check_permission(permission).
PassedValidation ==
    /\ IsPolicyCall
    /\ Len(last.trace) >= 1
    /\ last.trace[1].fn = "_check_permission"
    /\ last.trace[1].ret = "ok"

StepsOf(trace, fn) == { i \in DOMAIN trace : trace[i].fn = fn }

\* The role names the role callback returned during the last call.
ResolvedNames == { last.trace[i].ret : i \in StepsOf(last.trace, "_get_role") }

UniverseConfigured == ~permissions.isNone

\* ---------------------------------------------------------------- C1
\* C1: check(n) and filter(n, objects) raise PermissionNotFound if and only
\* if the permission universe is configured (permissions was not None) and
\* n is not in it; with no universe configured no name raises it.
C1_PermissionNotFoundIffOutsideUniverse ==
    IsPolicyCall =>
        (last.status = "PermissionNotFound"
            <=> (UniverseConfigured /\ last.args[1] \notin DOMAIN permissions.dict))

\* ---------------------------------------------------------------- C2
\* C2: a policy built with a present-but-empty permissions sequence rejects
\* every name: each check(n) and filter(n, objects) raises PermissionNotFound.
C2_EmptyUniverseRejectsEveryName ==
    (IsPolicyCall /\ UniverseConfigured /\ DOMAIN permissions.dict = {})
        => last.status = "PermissionNotFound"

\* ---------------------------------------------------------------- C3
\* C3: check never raises RoleNotFound; when the resolved role name is not
\* registered, check returns False for every name that passed validation and
\* no Role.check is invoked.
C3_CheckDeniesOnUnknownRole ==
    last.op = "check" =>
        /\ last.status # "RoleNotFound"
        /\ (PassedValidation /\ \E name \in ResolvedNames : name \notin DOMAIN roles)
              => /\ last.status = "returned"
                 /\ last.value = FALSE
                 /\ StepsOf(last.trace, "Role.check") = {}

C3_Witness ==
    /\ last.op = "check"
    /\ PassedValidation
    /\ ResolvedNames = {"ghost"}
    /\ roles # EmptyDict
    /\ last.status = "returned"
    /\ last.value = FALSE

\* ---------------------------------------------------------------- C4
\* C4: filter does not swallow a failed role resolution: for a name that
\* passed validation, an unregistered resolved role name makes filter raise
\* RoleNotFound, return no collection and invoke no Role.filter.
C4_FilterRaisesOnUnknownRole ==
    (last.op = "filter" /\ PassedValidation
        /\ \E name \in ResolvedNames : name \notin DOMAIN roles)
        => /\ last.status = "RoleNotFound"
           /\ last.value = NoValue
           /\ StepsOf(last.trace, "Role.filter") = {}

C4_Witness ==
    /\ last.op = "filter"
    /\ PassedValidation
    /\ ResolvedNames = {"ghost"}
    /\ roles # EmptyDict
    /\ last.status = "RoleNotFound"

\* ---------------------------------------------------------------- C5
\* C5: get_role(identity) asks the role callback for that identity's role
\* name and returns the Role registered under exactly that name; it raises
\* RoleNotFound if and only if the name is not registered. No fallback.
C5_GetRoleIsPureLookup ==
    last.op = "get_role" =>
        /\ Len(last.trace) = 1
        /\ last.trace[1].fn = "_get_role"
        /\ last.trace[1].arg = last.args
        /\ LET name == last.trace[1].ret
           IN /\ last.status = "RoleNotFound" <=> name \notin DOMAIN roles
              /\ name \in DOMAIN roles =>
                    /\ last.status = "returned"
                    /\ last.value = roles[name]
                    /\ last.value.name = name

C5_Witness ==
    /\ last.op = "get_role"
    /\ last.status = "RoleNotFound"
    /\ roles # EmptyDict

C5_WitnessFound ==
    /\ last.op = "get_role"
    /\ last.status = "returned"
    /\ last.value.name = "admin"
    /\ Cardinality(DOMAIN roles) = 2

\* ---------------------------------------------------------------- C6
RoleNamesOf(rs) == { rs[i].name : i \in DOMAIN rs }

HasDuplicateNames(rs) == \E i, j \in DOMAIN rs : i # j /\ rs[i].name = rs[j].name

\* C6: constructing a Policy from roles two of which share a name always
\* fails, and no operation is ever called on such a policy; with distinct
\* names construction succeeds and the registry holds exactly one entry per
\* supplied role.
C6_DuplicateRoleNameAbortsConstruction ==
    /\ policy # "new" =>
          IF HasDuplicateNames(args.roles)
          THEN policy = "failed"
          ELSE /\ policy = "constructed"
               /\ DOMAIN roles = RoleNamesOf(args.roles)
               /\ Cardinality(DOMAIN roles) = Len(args.roles)
               /\ \A i \in DOMAIN args.roles : roles[args.roles[i].name] = args.roles[i]
    /\ policy # "constructed" => last = NoCall

C6_Witness ==
    /\ policy = "failed"
    /\ Len(args.roles) = 2
    /\ args.roles[1] # args.roles[2]
    /\ DOMAIN roles = {"viewer"}

\* ---------------------------------------------------------------- C7
Rank(fn) ==
    CASE fn = "_check_permission" -> 1
      [] fn = "_get_identity" -> 2
      [] fn = "_get_role" -> 3
      [] fn \in {"Role.check", "Role.filter"} -> 4
      [] OTHER -> 0

\* C7: check and filter run universe validation, identity resolution, role
\* resolution and delegation to the Role in that order; a call that ends in
\* PermissionNotFound has invoked neither callback nor any Role method, and
\* the role callback never runs before the identity callback returned.
C7_StepsInStrictOrder ==
    IsPolicyCall =>
        /\ Len(last.trace) >= 1
        /\ \A i \in DOMAIN last.trace : Rank(last.trace[i].fn) = i
        /\ last.status = "PermissionNotFound" => Len(last.trace) = 1
        /\ \A i \in StepsOf(last.trace, "_get_role") :
              /\ last.trace[i - 1].fn = "_get_identity"
              /\ last.trace[i].arg = <<last.trace[i - 1].ret>>

C7_Witness ==
    /\ last.op = "filter"
    /\ last.status = "PermissionNotFound"
    /\ Len(last.trace) = 1

C7_WitnessDelegated ==
    /\ last.op = "check"
    /\ Len(last.trace) = 4

\* ---------------------------------------------------------------- C8
\* C8: when the name passes validation and the resolved role name is
\* registered, check returns exactly what that Role's check returned, called
\* with the identity the identity callback returned in this call and the
\* same permission name. With universe {view, edit}, role viewer granting
\* only view and the role callback returning viewer: check(view) is True,
\* check(edit) is False.
ScenarioA ==
    /\ UniverseConfigured
    /\ DOMAIN permissions.dict = {"view", "edit"}
    /\ "viewer" \in DOMAIN roles
    /\ roles["viewer"].permissions = [view |-> "allow"]
    /\ ResolvedNames = {"viewer"}

C8_CheckReturnsRoleCheckVerbatim ==
    (last.op = "check" /\ PassedValidation
        /\ \E name \in ResolvedNames : name \in DOMAIN roles)
        => /\ Len(last.trace) = 4
           /\ last.trace[4].fn = "Role.check"
           /\ last.trace[4].arg = <<roles[last.trace[3].ret], last.trace[2].ret, last.args[1]>>
           /\ last.status = "returned"
           /\ last.value = last.trace[4].ret
           /\ ScenarioA => /\ last.args[1] = "view" => last.value = TRUE
                           /\ last.args[1] = "edit" => last.value = FALSE

C8_Witness ==
    /\ last.op = "check"
    /\ ScenarioA
    /\ last.args = <<"view">>
    /\ last.status = "returned"
    /\ last.value = TRUE

C8_WitnessDenied ==
    /\ last.op = "check"
    /\ ScenarioA
    /\ last.args = <<"edit">>
    /\ last.status = "returned"
    /\ last.value = FALSE
    /\ Len(last.trace) = 4

\* ---------------------------------------------------------------- C9
\* Two calls saw the same collaborator outputs: wherever both invoked the
\* same collaborator with the same arguments, it returned the same.
SameObservations(t1, t2) ==
    \A i \in DOMAIN t1, j \in DOMAIN t2 :
        (t1[i].fn = t2[j].fn /\ t1[i].arg = t2[j].arg) => t1[i].ret = t2[j].ret

IsCallStep == last'.parity # last.parity

\* C9: after construction no call changes the role registry or the
\* permission universe, and a check or filter repeated with the same
\* arguments and unchanged collaborator outputs has the same outcome.
C9_CallsLeaveConfigurationUnchanged ==
    [][ /\ policy = "constructed" => (roles' = roles /\ permissions' = permissions)
        /\ (/\ IsCallStep
            /\ last.op \in {"check", "filter"}
            /\ last'.op = last.op
            /\ last'.args = last.args
            /\ SameObservations(last.trace, last'.trace))
              => (last'.status = last.status /\ last'.value = last.value) ]_vars

C9_Witness ==
    /\ policy = "constructed"
    /\ roles # EmptyDict
    /\ last.op = "filter"
    /\ last.status = "returned"
    /\ last.parity = 0

\* ---------------------------------------------------------------- C10
\* C10: every check or filter that passes validation invokes the identity
\* callback exactly once and then the role callback exactly once, and its
\* outcome follows from what the callbacks return at the time of this call.
C10_ResolvesAfresh ==
    [][ (/\ IsCallStep
         /\ last'.op \in {"check", "filter"}
         /\ last'.trace[1].ret = "ok")
          => LET t == last'.trace
                 name == _get_role[_get_identity]
             IN /\ Cardinality(StepsOf(t, "_get_identity")) = 1
                /\ Cardinality(StepsOf(t, "_get_role")) = 1
                /\ Len(t) >= 3
                /\ t[2] = Step("_get_identity", <<>>, _get_identity)
                /\ t[3] = Step("_get_role", <<_get_identity>>, name)
                /\ IF name \in DOMAIN roles
                   THEN /\ Len(t) = 4
                        /\ t[4].arg[1] = roles[name]
                        /\ t[4].arg[2] = _get_identity
                        /\ \/ last'.status = "RoleLacksPermission"
                           \/ last'.status = "returned" /\ last'.value = t[4].ret
                   ELSE /\ Len(t) = 3
                        /\ last'.op = "check" =>
                              (last'.status = "returned" /\ last'.value = FALSE)
                        /\ last'.op = "filter" => last'.status = "RoleNotFound" ]_vars

\* A second or later call on the policy in which the role callback answered
\* "ghost".
C10_Witness ==
    /\ last.op = "check"
    /\ PassedValidation
    /\ ResolvedNames = {"ghost"}
    /\ last.parity = 0
    /\ roles # EmptyDict
====
